---- MODULE Spec2Model ----
(***************************************************************************)
(* Model of src/src/blockchain.js (class Blockchain).                      *)
(*                                                                         *)
(* The ledger is the pair (chain, height).  Every method returns a Promise *)
(* whose executor runs synchronously up to its first `await`; what follows *)
(* an `await` is a continuation placed on the JavaScript microtask queue,  *)
(* which is served first-in first-out.  A call is therefore modelled as a  *)
(* process: its synchronous prefix is the action that starts it, and each  *)
(* continuation is one action, enabled when the process is at the head of  *)
(* the microtask queue.  Callers may start a call between any two          *)
(* microtasks.                                                             *)
(*                                                                         *)
(* SHA256 is modelled as a collision-free function: the hash of a block is *)
(* the tuple of the fields that JSON.stringify(block) serialises while the *)
(* hash field is still null.                                               *)
(***************************************************************************)
EXTENDS Integers, Sequences, FiniteSets, TLC

\* ----------------------------------------------------------------- bounds
MaxSubmit == 2      \* submitStar calls made by the callers
MaxTicks == 1       \* advances of the wall clock
MaxTamper == 1      \* external mutations of a committed block's payload

\* ------------------------------------------------------ program constants
ExpiryWindow == 300     \* blockchain.js:141

Addresses == {"A", "B"}
Stars == {"s1"}
GenesisData == <<"Genesis Block">>          \* blockchain.js:37
ForgedData == <<"A", "forged">>             \* a payload written from outside
StartTime == ExpiryWindow + 1               \* the clock when the ledger is built

\* The submissions the callers make: the address, the age of the challenge
\* (currentTime - messageTime) and whether the signature is the address's
\* signature of the message.
Case(a, e, g) == [address |-> a, elapsed |-> e, good |-> g]
CoreCases ==
    {Case("A", 0, TRUE), Case("B", 0, FALSE),
     Case("A", ExpiryWindow + 1, TRUE), Case("B", ExpiryWindow + 1, FALSE)}
TamperCases == {Case("A", 0, TRUE)}
QueryCases == {Case("A", 0, TRUE)}
\* around the expiry window: a challenge from the future, one exactly as old
\* as the window, one a second older
ExpiryCases ==
    {Case("A", -1, TRUE), Case("A", ExpiryWindow, TRUE),
     Case("B", ExpiryWindow, FALSE), Case("A", ExpiryWindow + 1, TRUE),
     Case("B", ExpiryWindow + 1, FALSE)}

Null == 0           \* the index standing for JavaScript null / no block
NoHash == <<>>      \* a hash field that is null

Genesis == 0
Submitters == 1..MaxSubmit
Appenders == {Genesis} \cup Submitters
Validator == MaxSubmit + 1      \* the client calling validateChain
Procs == Appenders \cup {Validator}

VARIABLES
    chain,       \* this.chain: the sequence of blocks
    height,      \* this.height
    now,         \* the wall clock, in seconds (what getTimestamp returns)
    ticks,       \* number of clock advances so far
    tampers,     \* number of external payload mutations so far
    pc,          \* pc[p]: position of call p
    loc,         \* loc[p]: the locals of call p
    queue,       \* the microtask queue: calls with a continuation pending
    overlapped,  \* history: some append started while another was in flight
    ret          \* the result of the last synchronous query

vars == <<chain, height, now, ticks, tampers, pc, loc, queue, overlapped, ret>>

\* ------------------------------------------------------------ pure helpers
Min(S) == CHOOSE x \in S : \A y \in S : x <= y

\* SHA256(JSON.stringify(block)) with block.hash still null (blockchain.js:78)
SHA256(b) == <<b.height, b.time, b.previousBlockHash, b.body>>

\* The body of a block is its data encoded (JSON, then hex): block.js
Encode(data) == <<"hex", data>>

\* Block.getBlockData(): block.js
getBlockData(b) == b.body[2]

\* new BlockClass.Block(data): block.js
NewBlock(data) ==
    [hash |-> NoHash, height |-> 0, body |-> Encode(data), time |-> 0,
     previousBlockHash |-> NoHash]

\* Block.validate(): block.js
BlockValidate(b) == SHA256(b) = b.hash

\* getChainHeight(), blockchain.js:45-49
getChainHeightBad(h) == h
getChainHeight(h) == IF h = -1 THEN 0 ELSE h

\* a clock read that wraps around, as the seconds of a day or a minute do
getTimestampWrapping(t) == t % (StartTime + 1)

\* getTimestamp(), blockchain.js:261-263
getTimestamp(t) == t

\* error descriptors of validateChain, blockchain.js:244 and 249
ErrInvalid(h) == <<"invalid", h>>
ErrPrevHash(h) == <<"previous hash", h>>

\* bitcoinMessage.verify(message, address, signature): external capability.
\* A signature is the pair it was made for.
Sign(address, message) == <<address, message>>
BadSignature == <<"nobody", <<"nobody", 0>>>>
verify(message, address, signature) == signature = Sign(address, message)

\* The locals of a call that has not started.
\*   h       the value getChainHeight() resolved with (blockchain.js:67)
\*   address, star   the arguments of submitStar
\*   data    the data of the block being appended
\*   pos     where in the chain the block was pushed (Null: not pushed)
\*   elapsed, sigOK   currentTime - messageTime and verify's answer
\*   vi, vres, errs   validateChain's loop index (once the loop is over, the
\*                    number of blocks it visited), the pending answer of
\*                    block.validate() and errorLog
\*   tset    history: the blocks that were already overwritten when this
\*           call's validateChain started
\*   t0      history: the number of overwrites when it started
\*   out     how the promise returned to the caller has settled
NoLoc ==
    [h |-> 0, address |-> "", star |-> "", data |-> GenesisData, pos |-> Null,
     elapsed |-> 0, sigOK |-> TRUE,
     vi |-> 0, vres |-> TRUE, errs |-> <<>>, tset |-> {}, t0 |-> 0,
     out |-> "pending"]

NoRet == [op |-> "none"]

\* An append is in flight from its call until its _addBlock promise settles.
InFlight(p) == pc[p] \in {"addBlock", "validate", "settle"}

\* ------------------------------------------------------------------- Init
\* constructor(): chain = [], height = -1, initializeChain() has run up to
\* the await inside _addBlock (blockchain.js:24-28, 35-38, 63-67).
Init ==
    /\ chain = <<>>
    /\ height = -1
    /\ now = StartTime
    /\ ticks = 0
    /\ tampers = 0
    /\ pc = [p \in Procs |-> IF p = Genesis THEN "addBlock" ELSE "idle"]
    /\ loc = [p \in Procs |->
                IF p = Genesis THEN [NoLoc EXCEPT !.h = getChainHeight(-1)]
                ELSE NoLoc]
    /\ queue = <<Genesis>>
    /\ overlapped = FALSE
    /\ ret = NoRet

\* --------------------------------------------------------------- _addBlock
\* blockchain.js:66-78: the block as stamped, linked and hashed.
LinkOfBad(ch, b) == b.previousBlockHash
LinkOf(ch, b) ==
    IF Len(ch) > 0 THEN ch[Len(ch)].hash ELSE b.previousBlockHash

StampBlockBad(ch, b, h, t) ==
    LET b1 == [b EXCEPT !.height = h, !.time = getTimestamp(t)]
    IN  [b1 EXCEPT !.hash = SHA256(b1),
                   !.previousBlockHash = LinkOf(ch, b)]

StampBlock(ch, b, h, t) ==
    LET b1 == [b EXCEPT !.height = h,
                        !.time = getTimestamp(t),
                        !.previousBlockHash = LinkOf(ch, b)]
    IN  [b1 EXCEPT !.hash = SHA256(b1)]

\* the counter kept as the height of the last block
NewHeightOfLast(ch) == Len(ch) - 1

\* blockchain.js:84
NewHeight(ch) == Len(ch)

\* ----------------------------------------------------------- validateChain
\* blockchain.js:242-250: what one iteration adds to errorLog for the block
\* at index i, given the answer v of its block.validate().
CheckBlockBad(ch, i, v) ==
    (IF ~v /\ i > 1 THEN <<ErrInvalid(ch[i].height)>> ELSE <<>>)
    \o (IF i > 1 /\ ch[i].previousBlockHash # ch[i - 1].hash
        THEN <<ErrPrevHash(ch[i].height)>> ELSE <<>>)

CheckBlockNamesPrev(ch, i, v) ==
    (IF ~v THEN <<ErrInvalid(ch[i].height)>> ELSE <<>>)
    \o (IF i > 1 /\ ch[i].previousBlockHash # ch[i - 1].hash
        THEN <<ErrPrevHash(ch[i - 1].height)>> ELSE <<>>)

CheckBlock(ch, i, v) ==
    (IF ~v THEN <<ErrInvalid(ch[i].height)>> ELSE <<>>)
    \o (IF i > 1 /\ ch[i].previousBlockHash # ch[i - 1].hash
        THEN <<ErrPrevHash(ch[i].height)>> ELSE <<>>)

Tampered(ch) == {i \in 1..Len(ch) : ~BlockValidate(ch[i])}

\* blockchain.js:232-243: the synchronous prefix of validateChain on a
\* non-empty chain, up to the first await.
ValidateStart(l, ch) ==
    [l EXCEPT !.vi = 1, !.vres = BlockValidate(ch[1]), !.errs = <<>>,
              !.tset = Tampered(ch), !.t0 = tampers]

\* ---------------------------------------------------------------- queries
\* blockchain.js:165-178; the result is the index of the block, Null if none
getBlockByHash(ch, hash) ==
    LET m == {i \in 1..Len(ch) : ch[i].hash = hash}
    IN  IF m = {} THEN Null ELSE Min(m)

\* blockchain.js:185-198
getBlockByHeight(ch, h) ==
    LET m == {i \in 1..Len(ch) : ch[i].height = h}
    IN  IF m = {} THEN Null ELSE Min(m)

\* blockData.address (blockchain.js:214): undefined for data without owner
DataAddress(data) == IF Len(data) = 2 THEN data[1] ELSE "undefined"

\* The indices, in chain order, of the blocks whose decoded data has the
\* given owner: the blocks the callback at blockchain.js:211-219 keeps.
OwnedBy(ch, address) ==
    LET Keep(i) == DataAddress(getBlockData(ch[i])) = address
    IN  SelectSeq([i \in 1..Len(ch) |-> i], Keep)

\* blockchain.js:206-224: Array.filter keeps the elements of the chain for
\* which the callback answers truthy, so the result holds the blocks
\* themselves, each written here <<"block", index>>.
getStarsByWalletAddress(ch, address) ==
    LET idx == OwnedBy(ch, address)
    IN  [k \in 1..Len(idx) |-> <<"block", idx[k]>>]

\* blockchain.js:104-112
requestMessageOwnershipVerification(address, t) == <<address, getTimestamp(t)>>

\* blockchain.js:151: the data submitStar builds its block from
BlockDataBad(address, star) == <<star>>
BlockData(address, star) == <<address, star>>

\* blockchain.js:141-148: the rejection submitStar signals first, if any
RejectionAtWindow(elapsed, sigOK) ==
    IF elapsed >= ExpiryWindow THEN "ExpiredChallenge"
    ELSE IF ~sigOK THEN "InvalidSignature"
    ELSE "pending"

\* a ledger that consumes challenges: a submission is turned down once an
\* earlier one has come in from the same address
RejectionConsuming(elapsed, sigOK) ==
    IF elapsed > ExpiryWindow THEN "ExpiredChallenge"
    ELSE IF ~sigOK \/ \E q \in Submitters : pc[q] # "idle" /\ loc[q].sigOK
         THEN "InvalidSignature"
    ELSE "pending"

Rejection(elapsed, sigOK) ==
    IF elapsed > ExpiryWindow THEN "ExpiredChallenge"
    ELSE IF ~sigOK THEN "InvalidSignature"
    ELSE "pending"

\* ---------------------------------------------------------------- actions
AtHead(p) == queue # <<>> /\ Head(queue) = p

\* submitStar(address, message, signature, star) up to the await inside
\* _addBlock (blockchain.js:131-152, 63-67).  reject() does not end the
\* executor: the block is created and _addBlock is called in every case.
SubmitStar(s, address, message, signature, star) ==
    /\ pc[s] = "idle"
    /\ \A q \in Submitters : q < s => pc[q] # "idle"
    /\ LET messageTime == message[2]
           currentTime == getTimestamp(now)
           elapsed == currentTime - messageTime
           sigOK == verify(message, address, signature)
       IN  loc' = [loc EXCEPT ![s] =
                      [NoLoc EXCEPT !.h = getChainHeight(height),
                                    !.address = address,
                                    !.star = star,
                                    !.data = BlockData(address, star),
                                    !.elapsed = elapsed,
                                    !.sigOK = sigOK,
                                    !.out = Rejection(elapsed, sigOK)]]
    /\ pc' = [pc EXCEPT ![s] = "addBlock"]
    /\ queue' = Append(queue, s)
    /\ overlapped' = (overlapped \/ \E p \in Appenders : InFlight(p))
    /\ ret' = NoRet
    /\ UNCHANGED <<chain, height, now, ticks, tampers>>

\* _addBlock after `await self.getChainHeight()`: stamp, link, hash, push,
\* update the counter, and run validateChain up to its first await
\* (blockchain.js:67-87, 232-243).
AddBlockPush(p) ==
    /\ AtHead(p)
    /\ pc[p] = "addBlock"
    /\ LET b == StampBlock(chain, NewBlock(loc[p].data), loc[p].h, now)
           ch == Append(chain, b)
       IN  /\ chain' = ch
           /\ height' = NewHeight(ch)
           /\ loc' = [loc EXCEPT ![p] =
                         ValidateStart([@ EXCEPT !.pos = Len(ch)], ch)]
    /\ pc' = [pc EXCEPT ![p] = "validate"]
    /\ queue' = Append(Tail(queue), p)
    /\ ret' = NoRet
    /\ UNCHANGED <<now, ticks, tampers, overlapped>>

\* validateChain after `await block.validate()`: finish the iteration of
\* block vi, then either start the next one (the array iterator sees blocks
\* pushed meanwhile) or resolve with errorLog (blockchain.js:237-254).
ValidateStep(p) ==
    /\ AtHead(p)
    /\ pc[p] = "validate"
    /\ LET i == loc[p].vi
           errs == loc[p].errs \o CheckBlock(chain, i, loc[p].vres)
       IN  IF i + 1 <= Len(chain)
           THEN /\ loc' = [loc EXCEPT ![p].errs = errs,
                                      ![p].vi = i + 1,
                                      ![p].vres = BlockValidate(chain[i + 1])]
                /\ pc' = pc
                /\ queue' = Append(Tail(queue), p)
           ELSE /\ loc' = [loc EXCEPT ![p].errs = errs,
                                      ![p].vres = NoLoc.vres]
                /\ IF p \in Appenders
                   THEN /\ pc' = [pc EXCEPT ![p] = "settle"]
                        /\ queue' = Append(Tail(queue), p)
                   ELSE /\ pc' = [pc EXCEPT ![p] = "done"]
                        /\ queue' = Append(Tail(queue), p)
    /\ ret' = NoRet
    /\ UNCHANGED <<chain, height, now, ticks, tampers, overlapped>>

\* _addBlock after `await self.validateChain()`, taking the block back out
\* when the chain does not validate.
AddBlockSettleRollback(p) ==
    /\ AtHead(p)
    /\ pc[p] = "settle"
    /\ pc' = [pc EXCEPT ![p] =
                 IF Len(loc[p].errs) > 0 THEN "rejected" ELSE "resolved"]
    /\ loc' = [loc EXCEPT ![p].tset = NoLoc.tset, ![p].t0 = NoLoc.t0,
                           ![p].vi = NoLoc.vi]
    /\ chain' = IF Len(loc[p].errs) > 0
                THEN SubSeq(chain, 1, Len(chain) - 1) ELSE chain
    /\ height' = Len(chain')
    /\ queue' = Append(Tail(queue), p)
    /\ ret' = NoRet
    /\ UNCHANGED <<now, ticks, tampers, overlapped>>

\* _addBlock after `await self.validateChain()`: reject(errorLog) or
\* resolve(block) (blockchain.js:87-92); validateChain's locals are gone.
AddBlockSettle(p) ==
    /\ AtHead(p)
    /\ pc[p] = "settle"
    /\ pc' = [pc EXCEPT ![p] =
                 IF Len(loc[p].errs) > 0 THEN "rejected" ELSE "resolved"]
    /\ loc' = [loc EXCEPT ![p].tset = NoLoc.tset, ![p].t0 = NoLoc.t0,
                           ![p].vi = NoLoc.vi]
    /\ queue' = Append(Tail(queue), p)
    /\ ret' = NoRet
    /\ UNCHANGED <<chain, height, now, ticks, tampers, overlapped>>

\* submitStar / initializeChain after `await self._addBlock(block)`
\* (blockchain.js:152-155, 38-39).  A rejected _addBlock makes the await
\* throw inside the async executor: the executor's own promise rejects and
\* the promise handed to the caller is left as it was.  The error list is
\* lost with the executor's promise.
AddBlockResume(p) ==
    /\ AtHead(p)
    /\ pc[p] \in {"resolved", "rejected"}
    /\ loc' = [loc EXCEPT ![p].out =
                  IF p \in Submitters /\ pc[p] = "resolved" /\ @ = "pending"
                  THEN "block" ELSE @,
                             ![p].errs = NoLoc.errs]
    /\ pc' = [pc EXCEPT ![p] = IF pc[p] = "resolved" THEN "done" ELSE "thrown"]
    /\ queue' = Tail(queue)
    /\ ret' = NoRet
    /\ UNCHANGED <<chain, height, now, ticks, tampers, overlapped>>

\* validateChain() called by a client that awaits the result
\* (blockchain.js:232-243, 254); the client calls it again only when its
\* last call has returned.
ValidateChain(v) ==
    /\ pc[v] = "idle"
    /\ IF Len(chain) = 0
       THEN /\ pc' = [pc EXCEPT ![v] = "done"]
            /\ loc' = [loc EXCEPT ![v] = [NoLoc EXCEPT !.t0 = tampers]]
            /\ queue' = Append(queue, v)
       ELSE /\ pc' = [pc EXCEPT ![v] = "validate"]
            /\ loc' = [loc EXCEPT ![v] = ValidateStart(NoLoc, chain)]
            /\ queue' = Append(queue, v)
    /\ ret' = NoRet
    /\ UNCHANGED <<chain, height, now, ticks, tampers, overlapped>>

\* The client's continuation after `await validateChain()`: it has the
\* error list (blockchain.js:254).
ValidateReturn(v) ==
    /\ AtHead(v)
    /\ pc[v] = "done"
    /\ pc' = [pc EXCEPT ![v] = "idle"]
    /\ loc' = [loc EXCEPT ![v] = NoLoc]
    /\ queue' = Tail(queue)
    /\ ret' = NoRet
    /\ UNCHANGED <<chain, height, now, ticks, tampers, overlapped>>

\* getChainHeight() called by a client.
GetChainHeight ==
    /\ ret' = [op |-> "getChainHeight", val |-> getChainHeight(height)]
    /\ UNCHANGED <<chain, height, now, ticks, tampers, pc, loc, queue,
                   overlapped>>

\* getBlockByHeight(h) with the filter callback assigning, `p.height = height`,
\* where the code compares: every block gets height h, and all pass when h is
\* truthy.
GetBlockByHeightAssign(h) ==
    /\ chain' = [i \in 1..Len(chain) |-> [chain[i] EXCEPT !.height = h]]
    /\ ret' = [op |-> "getBlockByHeight", arg |-> h,
               val |-> IF h # 0 /\ Len(chain) > 0 THEN 1 ELSE Null]
    /\ UNCHANGED <<height, now, ticks, tampers, pc, loc, queue, overlapped>>

\* getBlockByHeight(h) called by a client.
GetBlockByHeight(h) ==
    /\ ret' = [op |-> "getBlockByHeight", arg |-> h,
               val |-> getBlockByHeight(chain, h)]
    /\ UNCHANGED <<chain, height, now, ticks, tampers, pc, loc, queue,
                   overlapped>>

\* getBlockByHash(hash) called by a client.
GetBlockByHash(hash) ==
    /\ ret' = [op |-> "getBlockByHash", arg |-> hash,
               val |-> getBlockByHash(chain, hash)]
    /\ UNCHANGED <<chain, height, now, ticks, tampers, pc, loc, queue,
                   overlapped>>

\* getStarsByWalletAddress(address) called by a client.
GetStarsByWalletAddress(address) ==
    /\ ret' = [op |-> "getStarsByWalletAddress", arg |-> address,
               val |-> getStarsByWalletAddress(chain, address)]
    /\ UNCHANGED <<chain, height, now, ticks, tampers, pc, loc, queue,
                   overlapped>>

\* requestMessageOwnershipVerification(address) called by a client.
RequestMessage(address) ==
    /\ ret' = [op |-> "requestMessage",
               val |-> requestMessageOwnershipVerification(address, now)]
    /\ UNCHANGED <<chain, height, now, ticks, tampers, pc, loc, queue,
                   overlapped>>

\* The wall clock advances by a second.
Tick ==
    /\ ticks < MaxTicks
    /\ now' = now + 1
    /\ ticks' = ticks + 1
    /\ ret' = NoRet
    /\ UNCHANGED <<chain, height, tampers, pc, loc, queue, overlapped>>

\* this.chain is a public field: code outside the class overwrites the
\* payload of a committed block and leaves its stored hash alone.
Tamper(i) ==
    /\ tampers < MaxTamper
    /\ chain[i].body # Encode(ForgedData)
    /\ chain' = [chain EXCEPT ![i].body = Encode(ForgedData)]
    /\ tampers' = tampers + 1
    /\ ret' = NoRet
    /\ UNCHANGED <<height, now, ticks, pc, loc, queue, overlapped>>

\* Code outside the class overwrites the stored hash of a committed block.
ForgedHash == SHA256([NewBlock(ForgedData) EXCEPT !.height = -1])

TamperHash(i) ==
    /\ tampers < MaxTamper
    /\ chain[i].hash # ForgedHash
    /\ chain' = [chain EXCEPT ![i].hash = ForgedHash]
    /\ tampers' = tampers + 1
    /\ ret' = NoRet
    /\ UNCHANGED <<height, now, ticks, pc, loc, queue, overlapped>>

\* Hashes a client may ask for: those stored, a null and one stored nowhere.
ProbeHashes ==
    {chain[i].hash : i \in 1..Len(chain)} \cup {NoHash, SHA256(NewBlock(ForgedData))}

\* Every continuation a microtask can be.
Microtask ==
    \/ \E p \in Appenders : AddBlockPush(p)
    \/ \E p \in Procs : ValidateStep(p)
    \/ \E p \in Appenders : AddBlockSettle(p)
    \/ \E p \in Appenders : AddBlockResume(p)

\* A caller submits one of the cases in C.
Submit(C) ==
    \E s \in Submitters, c \in C, star \in Stars :
        LET message == <<c.address, now - c.elapsed>>
        IN  SubmitStar(s, c.address, message,
                       IF c.good THEN Sign(c.address, message)
                       ELSE BadSignature, star)

\* One signed challenge, issued ExpiryWindow - 1 seconds before the ledger is
\* built, and a caller submitting that same (address, message, signature)
\* again and again.
ReplayAddress == "A"
ReplayMessage ==
    requestMessageOwnershipVerification(ReplayAddress,
                                        StartTime - (ExpiryWindow - 1))
Replay ==
    \E s \in Submitters, star \in Stars :
        SubmitStar(s, ReplayAddress, ReplayMessage,
                   Sign(ReplayAddress, ReplayMessage), star)

\* A caller asks a query.
Query ==
    \/ GetChainHeight
    \/ \E h \in 0..(Len(chain) + 1) : GetBlockByHeight(h)
    \/ \E hash \in ProbeHashes : GetBlockByHash(hash)
    \/ \E a \in Addresses : GetStarsByWalletAddress(a)
    \/ \E a \in Addresses : RequestMessage(a)

\* The ledger under submissions that may overlap, with a running clock.
Next ==
    \/ Submit(CoreCases)
    \/ Microtask
    \/ Tick

Spec == Init /\ [][Next]_vars

\* The same with payloads overwritten from outside and validateChain called
\* by clients.
NextTamper ==
    \/ Submit(TamperCases)
    \/ Microtask
    \/ ValidateChain(Validator)
    \/ ValidateReturn(Validator)
    \/ \E i \in 1..Len(chain) : Tamper(i)

SpecTamper == Init /\ [][NextTamper]_vars

\* The ledger with payloads and stored hashes overwritten from outside;
\* validateChain runs inside every append.
NextLink ==
    \/ Submit(TamperCases)
    \/ Microtask
    \/ \E i \in 1..Len(chain) : Tamper(i)
    \/ \E i \in 1..Len(chain) : TamperHash(i)

SpecLink == Init /\ [][NextLink]_vars

\* The ledger under submissions, which may overlap, of challenges around the
\* expiry window.
NextExpiry ==
    \/ Submit(ExpiryCases)
    \/ Microtask

SpecExpiry == Init /\ [][NextExpiry]_vars

\* The ledger under repeated submissions, which may overlap, of one signed
\* challenge, with a running clock.
NextReplay ==
    \/ Replay
    \/ Microtask
    \/ Tick

SpecReplay == Init /\ [][NextReplay]_vars

\* The ledger under submissions that may overlap, with clients asking
\* queries.
NextQuery ==
    \/ Submit(QueryCases)
    \/ Microtask
    \/ Tick
    \/ Query

SpecQuery == Init /\ [][NextQuery]_vars

\* ------------------------------------------------------------------ claims
Range(q) == {q[i] : i \in 1..Len(q)}
Rejected(s) == loc[s].out \in {"ExpiredChallenge", "InvalidSignature"}
Ended(p) == pc[p] \in {"done", "thrown"}
\* validateChain, called by p, has just resolved with loc[p].errs
Validated(p) ==
    IF p \in Appenders THEN pc[p] = "settle" ELSE pc[p] = "done"

\* C1: a submitStar that signalled ExpiredChallenge or InvalidSignature does
\* not append: its block is never pushed onto the chain.
C1_RejectionDoesNotAppend ==
    \A s \in Submitters : Rejected(s) => loc[s].pos = Null

\* C2: no two blocks of the chain carry the same height field.
C2_HeightsDistinct ==
    \A i, j \in 1..Len(chain) : i # j => chain[i].height # chain[j].height

\* C3: as long as no append started while another was in flight, the block at
\* index i (from 0) has height field i, and once the appends have completed
\* the chain has one block more than there were submissions.
C3_SequentialHeights ==
    ~overlapped =>
        /\ \A i \in 1..Len(chain) : chain[i].height = i - 1
        /\ (\A p \in Appenders : ~InFlight(p)) =>
               Len(chain) = 1 + Cardinality({s \in Submitters : pc[s] # "idle"})

C3_Witness ==
    /\ ~overlapped
    /\ \A p \in Appenders : Ended(p)
    /\ Len(chain) = MaxSubmit + 1

\* C4: the first block has an empty previousBlockHash and every later block's
\* previousBlockHash is the stored hash of the block before it.
C4_Linked ==
    \A i \in 1..Len(chain) :
        IF i = 1 THEN chain[i].previousBlockHash = NoHash
        ELSE chain[i].previousBlockHash = chain[i - 1].hash

C4_Witness ==
    /\ overlapped
    /\ Len(chain) >= 3
    /\ chain[2].height = chain[3].height

\* C5: a ledger on which nothing has been called yet has exactly one block,
\* with height 0 and an empty previousBlockHash, and at no time does a second
\* block without a predecessor exist.
C5_GenesisInvariant ==
    /\ (\A p \in Procs \ {Genesis} : pc[p] = "idle") =>
           /\ Len(chain) = 1
           /\ chain[1].height = 0
           /\ chain[1].previousBlockHash = NoHash
    /\ Cardinality({i \in 1..Len(chain) :
                       chain[i].previousBlockHash = NoHash}) <= 1

\* C6: a submitStar call that has run to its end has settled the promise it
\* gave its caller; when its _addBlock rejected with the error list, the
\* caller has received a rejection.
C6_CallSettles ==
    \A s \in Submitters : Ended(s) => loc[s].out # "pending"

\* C7: a validateChain that has resolved reports, for every block whose
\* payload had been changed before it started, an error naming that block's
\* height.
C7_TamperDetected ==
    \A p \in Procs :
        Validated(p) =>
            \A i \in loc[p].tset :
                ErrInvalid(chain[i].height) \in Range(loc[p].errs)

C7_Witness ==
    /\ pc[Validator] = "done"
    /\ loc[Validator].tset # {}
    /\ Len(chain) >= 2

\* C8: a submitStar whose challenge is not expired and whose signature
\* verifies ends resolved with its block, the block is in the chain with the
\* address and the star as its data, and every append has pushed exactly one
\* block.
C8_AcceptedAppendsOne ==
    /\ \A s \in Submitters :
           (pc[s] = "done" /\ loc[s].elapsed <= ExpiryWindow /\ loc[s].sigOK) =>
               /\ loc[s].out = "block"
               /\ loc[s].pos \in 1..Len(chain)
               /\ getBlockData(chain[loc[s].pos]) = <<loc[s].address, loc[s].star>>
    /\ \A p, q \in Appenders :
           (p # q /\ loc[p].pos # Null) => loc[p].pos # loc[q].pos
    /\ Len(chain) = Cardinality({p \in Appenders : loc[p].pos # Null})

C8_Witness ==
    \E s \in Submitters :
        /\ pc[s] = "done"
        /\ loc[s].out = "block"
        /\ loc[s].pos = 3

\* C9: getBlockByHeight(h) returns the block that carries height h, whichever
\* committed block that is, and null when no block carries h.
C9_FindByHeight ==
    ret.op = "getBlockByHeight" =>
        /\ \A i \in 1..Len(chain) : chain[i].height = ret.arg => ret.val = i
        /\ (\A i \in 1..Len(chain) : chain[i].height # ret.arg) => ret.val = Null

\* C10: getBlockByHash(b.hash) returns b for every committed block b, and
\* null for a hash stored in no block.
C10_FindByHash ==
    /\ \A i \in 1..Len(chain) : getBlockByHash(chain, chain[i].hash) = i
    /\ ret.op = "getBlockByHash" =>
           /\ \A i \in 1..Len(chain) : chain[i].hash = ret.arg => ret.val = i
           /\ (\A i \in 1..Len(chain) : chain[i].hash # ret.arg) =>
                  ret.val = Null

C10_Witness ==
    /\ ret.op = "getBlockByHash"
    /\ ret.val = 3
    /\ overlapped

\* C11: getStarsByWalletAddress(A) returns, in chain order, one entry for each
\* block whose decoded owner is A, and each entry is the decoded data of the
\* block, not the block.
C11_ListOwnedBy ==
    ret.op = "getStarsByWalletAddress" =>
        LET idx == OwnedBy(chain, ret.arg)
        IN  /\ Len(ret.val) = Len(idx)
            /\ \A k \in 1..Len(idx) :
                   /\ ret.val[k][1] = "data"
                   /\ ret.val[k][2] = getBlockData(chain[idx[k]])

\* C12: the height counter is -1 while the chain is empty and the number of
\* blocks otherwise, and getChainHeight returns 0 in the first case and the
\* counter in the second.
C12_HeightCounter ==
    /\ height = (IF Len(chain) = 0 THEN -1 ELSE Len(chain))
    /\ ret.op = "getChainHeight" =>
           ret.val = (IF Len(chain) = 0 THEN 0 ELSE height)

C12_Witness ==
    /\ ret.op = "getChainHeight"
    /\ ret.val = 3
    /\ overlapped

\* The errors a chain's first n blocks call for: for each block in order,
\* one naming its height if its hash is not the hash of its fields, then one
\* naming its height if it is not the first and its previousBlockHash is not
\* the stored hash of the block before it.
RECURSIVE ExpectedErrors(_, _)
ExpectedErrors(ch, n) ==
    IF n = 0 THEN <<>>
    ELSE ExpectedErrors(ch, n - 1)
         \o (IF SHA256(ch[n]) # ch[n].hash
             THEN << <<"invalid", ch[n].height>> >> ELSE <<>>)
         \o (IF n > 1 /\ ch[n].previousBlockHash # ch[n - 1].hash
             THEN << <<"previous hash", ch[n].height>> >> ELSE <<>>)

\* No block was overwritten since p's validateChain started.
Undisturbed(p) == tampers = loc[p].t0

\* C13: a validateChain that has resolved, no block having been overwritten
\* while it ran, returns exactly the errors the blocks it visited call for:
\* the empty list if and only if every block validates and is linked to its
\* predecessor.
C13_ValidateChainExact ==
    \A p \in Procs :
        (Validated(p) /\ Undisturbed(p)) =>
            loc[p].errs = ExpectedErrors(chain, loc[p].vi)

C13_Witness ==
    \E p \in Submitters :
        /\ Validated(p)
        /\ Undisturbed(p)
        /\ ErrInvalid(0) \in Range(loc[p].errs)
        /\ ErrPrevHash(1) \in Range(loc[p].errs)
        /\ Len(loc[p].errs) = 2
        /\ loc[p].vi = 3

C15_NoRollback ==
    \A p \in Appenders :
        /\ pc[p] = "rejected" => Len(loc[p].errs) > 0
        /\ pc[p] = "resolved" => Len(loc[p].errs) = 0
        /\ pc[p] \in {"rejected", "thrown"} =>
               /\ loc[p].pos \in 1..Len(chain)
               /\ chain[loc[p].pos].height = loc[p].h
               /\ getBlockData(chain[loc[p].pos]) \in {loc[p].data, ForgedData}
               /\ height = Len(chain)
               /\ height >= loc[p].pos

C15_Witness ==
    \E p \in Submitters :
        /\ pc[p] = "rejected"
        /\ ErrInvalid(0) \in Range(loc[p].errs)
        /\ loc[p].pos = Len(chain)
        /\ chain[loc[p].pos].body = Encode(loc[p].data)

\* C16: every block in the chain has its hash and time set, a non-first block
\* has its previousBlockHash set, and the stored hash is the hash of the
\* block's height, time, previousBlockHash and payload as they stand; this
\* holds in every state, so no read finds a half-built block.
C16_CommittedBlocksComplete ==
    \A i \in 1..Len(chain) :
        /\ chain[i].hash # NoHash
        /\ chain[i].height \in 0..Len(chain)
        /\ chain[i].time >= StartTime
        /\ i > 1 => chain[i].previousBlockHash # NoHash
        /\ BlockValidate(chain[i])

C16_Witness ==
    /\ ret.op = "getBlockByHeight"
    /\ ret.val = Len(chain)
    /\ Len(chain) >= 2
    /\ \E p \in Submitters : pc[p] = "validate" /\ loc[p].pos = Len(chain)
    /\ \E q \in Submitters : pc[q] = "addBlock"

\* C17: a step of getChainHeight, getBlockByHash, getBlockByHeight,
\* getStarsByWalletAddress, requestMessageOwnershipVerification or of
\* validateChain, the one run inside an append included, leaves the chain,
\* every field of every block and the height counter as they were.
C17_ReadsArePure ==
    [][\/ UNCHANGED <<chain, height>>
       \/ ~(Query \/ \E p \in Procs : ValidateStep(p))]_vars

C17_Witness ==
    /\ ret.op = "getStarsByWalletAddress"
    /\ Len(ret.val) = 2
    /\ \E p \in Submitters : pc[p] = "settle" /\ loc[p].vi = 3

\* C18: the clock never going backwards, the time fields are non-decreasing
\* along the chain in every state, and no block is stamped later than the
\* present reading of the clock.
C18_TimesNonDecreasing ==
    /\ \A i, j \in 1..Len(chain) : i < j => chain[i].time <= chain[j].time
    /\ \A i \in 1..Len(chain) : chain[i].time <= getTimestamp(now)

C18_Witness ==
    /\ overlapped
    /\ Len(chain) = 3
    /\ chain[2].time < chain[3].time
    /\ chain[2].height = chain[3].height

\* C19: every submission of the one signed challenge made while the challenge
\* is at most 300 seconds old is accepted, whatever was submitted before it,
\* and each accepted submission has a block of its own in the chain.
C19_ReplayAccepted ==
    LET fresh == {s \in Submitters : pc[s] # "idle" /\ loc[s].elapsed <= 300}
    IN  /\ \A s \in fresh :
               /\ loc[s].sigOK
               /\ ~Rejected(s)
               /\ pc[s] \notin {"rejected", "thrown"}
               /\ pc[s] = "done" =>
                      /\ loc[s].out = "block"
                      /\ loc[s].pos \in 2..Len(chain)
                      /\ getBlockData(chain[loc[s].pos])
                             = BlockData(ReplayAddress, loc[s].star)
        /\ \A s, t \in fresh :
               (s # t /\ pc[s] = "done" /\ pc[t] = "done") => loc[s].pos # loc[t].pos
        /\ (\A s \in Submitters : s \in fresh /\ pc[s] = "done") =>
               Len(chain) = 1 + MaxSubmit

C19_Witness ==
    /\ \A s \in Submitters : pc[s] = "done" /\ loc[s].out = "block"
    /\ loc[1].elapsed = ExpiryWindow - 1
    /\ loc[2].elapsed = ExpiryWindow
    /\ chain[2].body = chain[3].body

\* C20: once the genesis block is in and as long as no submission has
\* overlapped an append, getChainHeight() is one more than the height of the
\* last block, getBlockByHeight(getChainHeight()) is null and
\* getBlockByHeight(getChainHeight() - 1) is the last block.
C20_HeightIsOnePastLast ==
    (~overlapped /\ Len(chain) >= 1) =>
        LET top == getChainHeight(height)
        IN  /\ top = chain[Len(chain)].height + 1
            /\ getBlockByHeight(chain, top) = Null
            /\ getBlockByHeight(chain, top - 1) = Len(chain)
            /\ ret.op = "getChainHeight" => ret.val = top
            /\ (ret.op = "getBlockByHeight" /\ ret.arg = top) => ret.val = Null
            /\ (ret.op = "getBlockByHeight" /\ ret.arg = top - 1) =>
                   ret.val = Len(chain)

C20_Witness ==
    /\ ~overlapped
    /\ \A p \in Appenders : Ended(p)
    /\ ret.op = "getBlockByHeight"
    /\ ret.arg = getChainHeight(height) - 1
    /\ ret.val = 1 + MaxSubmit

====
